---- MODULE Spec2Model ----
(***************************************************************************)
(* Model of SpotiSaverApp (src/spotisaver.py).                             *)
(*                                                                         *)
(* Download side: the Start/Stop handlers, the run_dl thread with its      *)
(* ThreadPoolExecutor, and download_track with its stages.                 *)
(*                                                                         *)
(* The output folder is one folder that stays set once start_dl has set    *)
(* it (lines 335-337); row i of the table names target file i in it.  The  *)
(* progress bar dl_progress is written in the same statements and with the *)
(* same count as dl_status (lines 379-380) and is not kept apart.  Of the  *)
(* log lines of a run the model keeps the number of "ERROR" lines.         *)
(*                                                                         *)
(* Export side: the task thread of export_csv, one task at a time: the     *)
(* paged fetch of the playlist, the row loop with its artist lookups, and  *)
(* the write of the table.  A playlist entry is kept as its position, the  *)
(* presence of its track and the artist ids of the track; a row as the     *)
(* artist lookups made for it and its serialised Genres field.             *)
(*                                                                         *)
(* The log queue with log and flush_logs, and sanitize_filename, are       *)
(* modelled on their own, each under a specification of its own.           *)
(***************************************************************************)
EXTENDS Integers, FiniteSets, Sequences, TLC

\* ---------------------------------------------------------------- bounds
\* Rows of the CSV table read by one run (len(df) ranges over 0..MaxRows).
MaxRows == 2
\* Number of times the Start button is pressed with a CSV selected.
MaxRuns == 2
\* Rows read by all runs together.
MaxJobs == 2
\* The user picks among the first MaxParallel values of the "Parallel
\* downloads" combobox (values=[1, 2, 3, 4]); a pool wider than the table
\* behaves like one as wide as the table.
MaxParallel == 2
\* Entries of the playlist that is exported.
MaxEntries == 2
\* Export tasks started, over all processes of the app.
MaxExports == 2
\* Threads that call log, and messages each of them logs.
MaxProducers == 2
MaxMsgs == 2
\* Length of the names given to sanitize_filename.
MaxLen == 3

\* ------------------------------------------------------ program constants
\* values=[1, 2, 3, 4] of the "Parallel downloads" combobox.
MinWorkers == 1
MaxWorkers == 4

Runs == 1..MaxRuns
Rows == 1..MaxRows
WorkerCounts == {n \in MinWorkers..MaxWorkers : n <= MaxParallel}
OverwriteModes == {"skip", "overwrite"}
\* The "Format" radio buttons (line 267).
Formats == {"mp3", "flac", "wav"}

VARIABLES
    csv_path,       \* self.csv_path: FALSE = None, TRUE = a CSV is selected
    stop_event,     \* self.stop_event (threading.Event)
    overwrite_var,  \* self.overwrite_var
    parallel_var,   \* self.parallel_var
    format_var,     \* self.format_var
    dl_status,      \* self.dl_status: the text, with the numbers it shows
    disk,           \* target files present in the output folder: <<row, format>>
    run,            \* one record per run_dl thread
    job,            \* one record per (run, row): the future and its call
    errors_logged,  \* per run: "ERROR: ..." lines put on log_queue
    cancelled,      \* per run: stop_dl was called while the run was active
    playlist,       \* the entries of the playlist, as the catalog holds them
    hash_seed,      \* the string hash seed of this process of the app
    ex,             \* the task thread of export_csv and its locals
    csv_file,       \* the file at the path the export writes to
    tables,         \* the tables of the exports that completed, in order
    log_queue,      \* self.log_queue (queue.Queue)
    log_text,       \* the lines of the log view self.log_text
    pushed,         \* per producer: messages it has passed to log
    flusher,        \* flush_logs: "scheduled" (root.after) or "running"
    san             \* a name, and sanitize_filename applied to it

export_vars == << playlist, hash_seed, ex, csv_file, tables >>
log_vars == << log_queue, log_text, pushed, flusher >>

vars == << csv_path, stop_event, overwrite_var, parallel_var, format_var,
           dl_status, disk, run, job, errors_logged, cancelled,
           export_vars, log_vars, san >>

\* ----------------------------------------------------------------- state

\* A run_dl thread.  pc: "none" (not started), "read" (thread started, line
\* 348 not yet run), "submit" (loop of line 362), "collect" (loop of line
\* 369), "shutdown" (leaving the with block: executor.shutdown(wait=True)),
\* "report" (lines 382-386), "returned" / "raised" (thread ended).
\* start_format: the value of format_var when start_dl started the thread.
NoRun ==
    [pc |-> "none", total |-> 0, max_workers |-> 0, completed |-> 0,
     submitted |-> 0, start_format |-> "unset"]

\* A future of one run and the download_track call behind it.
\* st: "unsubmitted", "queued" (in the pool's work queue), the stage the
\* call is about to run ("extract", "cover", "mux", "verify"), or "finished".
\* fmt: the local fmt (lines 401, 408).
\* audio, cover: the locals audio_path (does the file exist) and cover, kept
\* while they are still read.  did: what the call has done so far, among
\* "tmp" (scratch directory created), "extract", "cover", "mux" (tool run).
NoJob ==
    [st |-> "unsubmitted", outcome |-> "none", fmt |-> "unset",
     audio |-> FALSE, cover |-> "unset", did |-> {}, collected |-> FALSE]

Stages == {"extract", "cover", "mux", "verify"}

Active(r) == run[r].pc \in {"read", "submit", "collect", "shutdown", "report"}
Ended(r) == run[r].pc \in {"returned", "raised"}
Executing(r, i) == job[r][i].st \in Stages
NumExecuting(r) == Cardinality({i \in Rows : Executing(r, i)})

\* The values of dl_status: "Idle", "Stopping", "Done", and the text
\* f"{completed}/{total} completed" of line 380.
StatusText(t) == [text |-> t, completed |-> 0, total |-> 0]
StatusCount(c, t) == [text |-> "completed", completed |-> c, total |-> t]

\* ---------------------------------------------------------- export: state

\* The catalog: the artist ids, and the genres sp.artist returns for each
\* (line 197).  Two artists that share one genre and have one of their own.
ArtistIds == {"A1", "A2"}
CatalogGenres(a) == IF a = "A1" THEN {"pop", "rock"} ELSE {"pop", "jazz"}
GenreNames == UNION {CatalogGenres(a) : a \in ArtistIds}

\* tr["artists"] of a track: one artist, one artist listed twice, two
\* artists.
ArtistLists == {<< "A1" >>, << "A1", "A1" >>, << "A1", "A2" >>}

\* The item at position i of the playlist: t["track"] is a track with its
\* artists, or None (has_track = FALSE).
Entries(i) ==
    {[id |-> i, has_track |-> TRUE, artists |-> a] : a \in ArtistLists}
        \cup {[id |-> i, has_track |-> FALSE, artists |-> << >>]}

Playlists ==
    UNION {{p \in [1..n -> UNION {Entries(i) : i \in 1..n}] :
               \A i \in 1..n : p[i] \in Entries(i)} : n \in 0..MaxEntries}

\* The orders in which a process iterates over a set of genre strings: the
\* order follows the hashes of the strings, which are salted with a seed
\* drawn when the process starts.
HashOrders ==
    {o \in [1..Cardinality(GenreNames) -> GenreNames] :
        \A i, k \in DOMAIN o : i # k => o[i] # o[k]}

\* The export task.  pc: "idle" (no task yet), "first" (thread started, line
\* 181 not yet run), "more" (loop of line 183), "rows" (loop of line 190),
\* "write" (lines 227-229), "done" / "raised" (thread ended).
\* tracks, data: the locals.  has_next, next_offset: results["next"], and
\* the position in the playlist that it points at.  pages: pages fetched.
\* n: export tasks started so far.
NoExport ==
    [pc |-> "idle", tracks |-> << >>, has_next |-> FALSE, next_offset |-> 0,
     pages |-> 0, data |-> << >>, n |-> 0]

NoFile == [state |-> "absent", rows |-> << >>]

InitDownloader ==
    /\ csv_path = FALSE
    /\ stop_event = FALSE
    /\ overwrite_var = "skip"
    /\ parallel_var = 1
    /\ format_var = "mp3"
    /\ dl_status = StatusText("Idle")
    /\ disk = {}
    /\ run = [r \in Runs |-> NoRun]
    /\ job = [r \in Runs |-> [i \in Rows |-> NoJob]]
    /\ errors_logged = [r \in Runs |-> 0]
    /\ cancelled = [r \in Runs |-> FALSE]

\* The export side at rest, with an empty playlist.
InitNoExport ==
    /\ playlist = << >>
    /\ hash_seed = CHOOSE o \in HashOrders : TRUE
    /\ ex = NoExport
    /\ csv_file = NoFile
    /\ tables = << >>

\* ------------------------------------------------------------- log: state

Producers == 1..MaxProducers

\* The text that log puts on the queue for the n-th message of producer p.
Line(p, n) == [by |-> p, n |-> n]

\* Lines 78, 126: an empty queue, an empty view, flush_logs scheduled.
InitLog ==
    /\ log_queue = << >>
    /\ log_text = << >>
    /\ pushed = [p \in Producers |-> 0]
    /\ flusher = "scheduled"

\* No name has been given to sanitize_filename.
NoName == [pc |-> "name", name |-> << >>, once |-> << >>, twice |-> << >>]

Init == InitDownloader /\ InitNoExport /\ InitLog /\ san = NoName

\* ------------------------------------------------------------ UI handlers

\* pick_csv: p is whether the file dialog returned a path; a cancelled
\* dialog leaves csv_path as it is.
pick_csv(p) ==
    /\ csv_path # (csv_path \/ p)
    /\ csv_path' = (csv_path \/ p)
    /\ UNCHANGED << stop_event, overwrite_var, parallel_var, format_var,
                    dl_status, disk, run, job, errors_logged, cancelled >>

\* The "If file exists" radio buttons write overwrite_var.
set_overwrite(v) ==
    /\ overwrite_var # v
    /\ overwrite_var' = v
    /\ UNCHANGED << csv_path, format_var, stop_event, parallel_var,
                    dl_status, disk, run, job, errors_logged,
                    cancelled >>

\* The "Format" radio buttons write format_var.
set_format(f) ==
    /\ format_var # f
    /\ format_var' = f
    /\ UNCHANGED << csv_path, stop_event, overwrite_var, parallel_var,
                    dl_status, disk, run, job, errors_logged, cancelled >>

\* The "Parallel downloads" combobox writes parallel_var.
set_parallel(n) ==
    /\ parallel_var # n
    /\ parallel_var' = n
    /\ UNCHANGED << csv_path, format_var, stop_event, overwrite_var,
                    dl_status, disk, run, job, errors_logged,
                    cancelled >>

\* The thread that start_dl creates: the first run not yet started.
NextRun == CHOOSE r \in Runs : run[r].pc = "none" /\ \A q \in 1..(r - 1) : run[q].pc # "none"

\* start_dl with no CSV selected: an error box, nothing else.
start_dl_no_csv ==
    /\ ~csv_path
    /\ UNCHANGED vars

\* start_dl with a CSV selected: the output folder is set if none is, the
\* stop flag is cleared, and a run_dl thread is started.  Nothing in it
\* looks at whether another run_dl thread is alive.
start_dl ==
    /\ csv_path
    /\ \E r \in Runs : run[r].pc = "none"
    /\ stop_event' = FALSE
    /\ run' = [run EXCEPT ![NextRun].pc = "read",
                           ![NextRun].start_format = format_var]
    /\ UNCHANGED << csv_path, format_var, overwrite_var, parallel_var, dl_status,
                    disk, job, errors_logged, cancelled >>

\* stop_dl: sets the flag and the status text.
stop_dl ==
    /\ stop_event' = TRUE
    /\ dl_status' = StatusText("Stopping")
    /\ cancelled' = [r \in Runs |-> cancelled[r] \/ Active(r)]
    /\ UNCHANGED << csv_path, format_var, overwrite_var, parallel_var,
                    disk, run, job, errors_logged >>

\* ------------------------------------------------------------------ run_dl

RECURSIVE RowsRead(_)
RowsRead(k) == IF k = 0 THEN 0 ELSE run[k].total + RowsRead(k - 1)

\* Lines 348-357: read the table, set up the progress bar, read the worker
\* count.  n is len(df), the number of rows the CSV holds at this moment.
run_dl_read(r, n) ==
    /\ run[r].pc = "read"
    /\ RowsRead(MaxRuns) + n <= MaxJobs
    /\ run' = [run EXCEPT ![r] = [pc |-> "submit", total |-> n,
                                  max_workers |-> parallel_var,
                                  completed |-> 0, submitted |-> 0,
                                  start_format |-> @.start_format]]
    /\ UNCHANGED << csv_path, format_var, stop_event, overwrite_var,
                    parallel_var, dl_status, disk, job, errors_logged,
                    cancelled >>

\* Lines 362-367, one iteration of the submission loop (or its end).
run_dl_submit(r) ==
    /\ run[r].pc = "submit"
    /\ IF run[r].submitted < run[r].total /\ ~stop_event
       THEN /\ run' = [run EXCEPT ![r].submitted = @ + 1]
            /\ job' = [job EXCEPT ![r][run[r].submitted + 1].st = "queued"]
       ELSE /\ run' = [run EXCEPT ![r].pc = "collect"]
            /\ job' = job
    /\ UNCHANGED << csv_path, format_var, stop_event, overwrite_var,
                    parallel_var, dl_status, disk,
                    errors_logged, cancelled >>

Submitted(r) == {i \in Rows : job[r][i].st # "unsubmitted"}
Finished(r) == {i \in Rows : job[r][i].st = "finished"}
Uncollected(r) == {i \in Submitted(r) : ~job[r][i].collected}

\* Lines 369-380, the end of the as_completed loop: every future was yielded.
run_dl_collect_end(r) ==
    /\ run[r].pc = "collect"
    /\ Uncollected(r) = {}
    /\ run' = [run EXCEPT ![r].pc = "shutdown"]
    /\ UNCHANGED << csv_path, format_var, stop_event, overwrite_var,
                    parallel_var, dl_status, disk, job,
                    errors_logged, cancelled >>

\* run_dl_collect without the try/except of lines 373-376: the exception of
\* a failed call leaves the loop, unlogged and uncounted.
run_dl_collect_uncaught(r, i) ==
    /\ run[r].pc = "collect"
    /\ i \in Uncollected(r) \cap Finished(r)
    /\ IF stop_event \/ job[r][i].outcome = "failed"
       THEN /\ run' = [run EXCEPT ![r].pc = "shutdown"]
            /\ UNCHANGED << job, errors_logged, dl_status >>
       ELSE /\ job' = [job EXCEPT ![r][i].collected = TRUE]
            /\ run' = [run EXCEPT ![r].completed = @ + 1]
            /\ dl_status' = StatusCount(run[r].completed + 1, run[r].total)
            /\ UNCHANGED errors_logged
    /\ UNCHANGED << csv_path, format_var, stop_event, overwrite_var, parallel_var, disk,
                    cancelled >>

\* run_dl_collect with the counter also incremented in the except branch.
run_dl_collect_twice(r, i) ==
    /\ run[r].pc = "collect"
    /\ i \in Uncollected(r) \cap Finished(r)
    /\ IF stop_event
       THEN /\ run' = [run EXCEPT ![r].pc = "shutdown"]
            /\ UNCHANGED << job, errors_logged, dl_status >>
       ELSE /\ job' = [job EXCEPT ![r][i].collected = TRUE]
            /\ errors_logged' =
                 [errors_logged EXCEPT
                    ![r] = IF job[r][i].outcome = "failed" THEN @ + 1 ELSE @]
            /\ run' = [run EXCEPT ![r].completed =
                         IF job[r][i].outcome = "failed" THEN @ + 2 ELSE @ + 1]
            /\ dl_status' = StatusCount(run'[r].completed, run[r].total)
    /\ UNCHANGED << csv_path, format_var, stop_event, overwrite_var, parallel_var, disk,
                    cancelled >>

\* Lines 369-380, one iteration: as_completed yields a finished future i.
run_dl_collect(r, i) ==
    /\ run[r].pc = "collect"
    /\ i \in Uncollected(r) \cap Finished(r)
    /\ IF stop_event
       THEN /\ run' = [run EXCEPT ![r].pc = "shutdown"]
            /\ UNCHANGED << job, errors_logged, dl_status >>
       ELSE /\ job' = [job EXCEPT ![r][i].collected = TRUE]
            /\ errors_logged' =
                 [errors_logged EXCEPT
                    ![r] = IF job[r][i].outcome = "failed" THEN @ + 1 ELSE @]
            /\ run' = [run EXCEPT ![r].completed = @ + 1]
            /\ dl_status' = StatusCount(run[r].completed + 1, run[r].total)
    /\ UNCHANGED << csv_path, format_var, stop_event, overwrite_var,
                    parallel_var, disk, cancelled >>

\* Leaving the with block of line 359: ThreadPoolExecutor.__exit__ calls
\* shutdown(wait=True), which returns once every submitted call has run.
run_dl_shutdown(r) ==
    /\ run[r].pc = "shutdown"
    /\ Submitted(r) = Finished(r)
    /\ run' = [run EXCEPT ![r].pc = "report"]
    /\ UNCHANGED << csv_path, format_var, stop_event, overwrite_var,
                    parallel_var, dl_status, disk, job,
                    errors_logged, cancelled >>

\* Whether the app object has the attribute start_btn: build_downloader
\* packs the Start button without keeping it (line 304).
HasStartBtn == FALSE

\* Lines 382-386: the status, then the two button updates.
run_dl_report(r) ==
    /\ run[r].pc = "report"
    /\ dl_status' = IF ~stop_event THEN StatusText("Done") ELSE dl_status
    /\ run' = [run EXCEPT ![r].pc = IF HasStartBtn THEN "returned" ELSE "raised"]
    /\ UNCHANGED << csv_path, format_var, stop_event, overwrite_var,
                    parallel_var, disk, job, errors_logged,
                    cancelled >>

\* ---------------------------------------------------------- download_track

\* A pool that starts every queued call at once.
PoolCanStartUnbounded(r, i) ==
    /\ job[r][i].st = "queued"
    /\ \A k \in 1..(i - 1) : job[r][k].st # "queued"

\* The pool of line 359 hands the oldest queued call to a worker thread
\* when fewer than max_workers calls of this pool are executing.
PoolCanStart(r, i) ==
    /\ job[r][i].st = "queued"
    /\ \A k \in 1..(i - 1) : job[r][k].st # "queued"
    /\ NumExecuting(r) < run[r].max_workers

Finish(j, o) ==
    [j EXCEPT !.st = "finished", !.outcome = o, !.audio = FALSE,
              !.cover = "unset"]

\* The skip test with the file test inverted.
SkipTestInverted(ow, exists) == ow = "skip" /\ ~exists

\* Lines 417-419: the skip test.
SkipTest(ow, exists) == ow = "skip" /\ exists

\* Lines 405-406, 414-415: the target path out of a call, from the row's
\* artist and title and the format the call has read.
Out(r, i) == << i, job[r][i].fmt >>

\* Lines 389-421: a worker starts the call; format, target path, skip test,
\* scratch directory.
download_track_check(r, i) ==
    /\ PoolCanStart(r, i)
    /\ job' = [job EXCEPT ![r][i] =
                 IF SkipTest(overwrite_var, << i, format_var >> \in disk)
                 THEN Finish([@ EXCEPT !.fmt = format_var], "skipped")
                 ELSE [@ EXCEPT !.st = "extract", !.fmt = format_var,
                                !.did = {"tmp"}]]
    /\ UNCHANGED << csv_path, format_var, stop_event, overwrite_var,
                    parallel_var, dl_status, disk, run,
                    errors_logged, cancelled >>

\* Lines 422-437: yt-dlp runs; a says whether it left source.<fmt> in tmp.
\* Its exit status is not looked at.
download_track_extract(r, i, a) ==
    /\ job[r][i].st = "extract"
    /\ job' = [job EXCEPT ![r][i] =
                 [@ EXCEPT !.st = "cover", !.audio = a,
                           !.did = @ \cup {"extract"}]]
    /\ UNCHANGED << csv_path, format_var, stop_event, overwrite_var,
                    parallel_var, dl_status, disk, run,
                    errors_logged, cancelled >>

\* Line 438, download_spotify_cover (lines 52-62): c is "path" (cover.jpg
\* written), "none" (the album lists no image) or "raise" (sp.track or
\* requests.get raised).
download_track_cover(r, i, c) ==
    /\ job[r][i].st = "cover"
    /\ job' = [job EXCEPT ![r][i] =
                 IF c = "raise"
                 THEN Finish([@ EXCEPT !.did = @ \cup {"cover"}], "failed")
                 ELSE [@ EXCEPT !.st = "mux", !.cover = c,
                                !.did = @ \cup {"cover"}]]
    /\ UNCHANGED << csv_path, format_var, stop_event, overwrite_var,
                    parallel_var, dl_status, disk, run,
                    errors_logged, cancelled >>

\* Whether subprocess.run accepts the ffmpeg argument list of lines 440-471:
\* the list holds the value of cover after "-i", and Popen raises TypeError
\* for an argument that is None.
MuxArgsOk(c) == c # "none"

\* Lines 440-473: ffmpeg runs; made says whether it wrote the target file.
\* Its exit status is not looked at.  Without an input audio file ffmpeg
\* writes nothing.
download_track_mux(r, i, made) ==
    /\ job[r][i].st = "mux"
    /\ made => job[r][i].audio
    /\ IF MuxArgsOk(job[r][i].cover)
       THEN /\ job' = [job EXCEPT ![r][i] =
                         [@ EXCEPT !.st = "verify", !.audio = FALSE,
                                   !.cover = "unset",
                                   !.did = @ \cup {"mux"}]]
            /\ disk' = IF made THEN disk \cup {Out(r, i)} ELSE disk
       ELSE /\ ~made
            /\ job' = [job EXCEPT ![r][i] = Finish(@, "failed")]
            /\ disk' = disk
    /\ UNCHANGED << csv_path, format_var, stop_event, overwrite_var,
                    parallel_var, dl_status, run,
                    errors_logged, cancelled >>

\* download_track without the test of lines 474-475.
VerifyNothing(exists) == "success"

\* Lines 474-475: the call returns only if the target file exists.
Verify(exists) == IF exists THEN "success" ELSE "failed"

download_track_verify(r, i) ==
    /\ job[r][i].st = "verify"
    /\ job' = [job EXCEPT ![r][i] = Finish(@, Verify(Out(r, i) \in disk))]
    /\ UNCHANGED << csv_path, format_var, stop_event, overwrite_var,
                    parallel_var, dl_status, disk, run,
                    errors_logged, cancelled >>

\* -------------------------------------------------------------- export_csv

downloader_vars ==
    << stop_event, overwrite_var, parallel_var, format_var, dl_status, disk,
       run, job, errors_logged, cancelled >>

\* Lines 166-175: export_csv with an entry that holds no playlist id, or
\* with the folder dialog cancelled: nothing is started.
export_csv_rejected ==
    /\ ex.pc \in {"idle", "done", "raised"}
    /\ UNCHANGED vars

\* Lines 166-179, 248: export_csv starts the task thread; the task fetches
\* the playlist object.
export_csv ==
    /\ ex.pc \in {"idle", "done", "raised"}
    /\ ex.n < MaxExports
    /\ ex' = [NoExport EXCEPT !.pc = "first", !.n = ex.n + 1]
    /\ UNCHANGED << csv_path, downloader_vars, log_vars, san, playlist, hash_seed, csv_file,
                    tables >>

\* The response of the catalog to a request for the page of k items that
\* starts after the first offset entries: the items, and "next", which is
\* set when entries remain after this page.
PlaylistPage(offset, k) ==
    LET last == IF offset + k < Len(playlist) THEN offset + k
                ELSE Len(playlist)
    IN  [items |-> SubSeq(playlist, offset + 1, last),
         has_next |-> last < Len(playlist),
         next_offset |-> last]

\* Lines 180-182: the first page, of k items.
export_fetch_first(k) ==
    /\ ex.pc = "first"
    /\ LET results == PlaylistPage(0, k)
       IN  ex' = [ex EXCEPT !.pc = "more",
                            !.tracks = results.items,
                            !.has_next = results.has_next,
                            !.next_offset = results.next_offset,
                            !.pages = 1]
    /\ UNCHANGED << csv_path, downloader_vars, log_vars, san, playlist, hash_seed, csv_file,
                    tables >>

\* The loop of lines 183-185 with the list assigned instead of extended.
export_fetch_next_assign(k) ==
    /\ ex.pc = "more"
    /\ ex.has_next
    /\ LET results == PlaylistPage(ex.next_offset, k)
       IN  ex' = [ex EXCEPT !.tracks = results.items,
                            !.has_next = results.has_next,
                            !.next_offset = results.next_offset,
                            !.pages = @ + 1]
    /\ UNCHANGED << csv_path, downloader_vars, log_vars, san, playlist, hash_seed, csv_file,
                    tables >>

\* Lines 183-185, one iteration: the next page, of k items.
export_fetch_next(k) ==
    /\ ex.pc = "more"
    /\ ex.has_next
    /\ LET results == PlaylistPage(ex.next_offset, k)
       IN  ex' = [ex EXCEPT !.tracks = @ \o results.items,
                            !.has_next = results.has_next,
                            !.next_offset = results.next_offset,
                            !.pages = @ + 1]
    /\ UNCHANGED << csv_path, downloader_vars, log_vars, san, playlist, hash_seed, csv_file,
                    tables >>

\* Lines 183, 187-188: results["next"] is None, the loop ends.
export_fetch_end ==
    /\ ex.pc = "more"
    /\ ~ex.has_next
    /\ ex' = [ex EXCEPT !.pc = "rows", !.next_offset = 0]
    /\ UNCHANGED << csv_path, downloader_vars, log_vars, san, playlist, hash_seed, csv_file,
                    tables >>

\* Lines 195-197: the genres of the artists, one sp.artist call per element
\* of the list, gathered in a set.  calls: the ids asked for, in order.
RECURSIVE ArtistGenres(_)
ArtistGenres(artists) ==
    IF artists = << >> THEN [calls |-> << >>, genres |-> {}]
    ELSE LET rest == ArtistGenres(Tail(artists))
         IN  [calls |-> << Head(artists) >> \o rest.calls,
              genres |-> CatalogGenres(Head(artists)) \cup rest.genres]

\* Line 210: ", ".join(genres) takes the elements of the set in the order
\* the process iterates over it.
JoinGenres(order, genres) == SelectSeq(order, LAMBDA g : g \in genres)

\* Lines 190-225, one iteration of the row loop (or its end).  tr["artists"]
\* with tr None raises TypeError; no except clause takes it, the finally
\* clause of lines 244-246 runs and the thread ends.
export_row ==
    /\ ex.pc = "rows"
    /\ IF Len(ex.data) < Len(ex.tracks)
       THEN LET t == ex.tracks[Len(ex.data) + 1]
                found == ArtistGenres(t.artists)
            IN  IF t.has_track
                THEN ex' = [ex EXCEPT !.data =
                              Append(@, [id |-> t.id,
                                         calls |-> found.calls,
                                         genres |-> JoinGenres(hash_seed,
                                                               found.genres)])]
                ELSE ex' = [ex EXCEPT !.pc = "raised"]
       ELSE ex' = [ex EXCEPT !.pc = "write"]
    /\ UNCHANGED << csv_path, downloader_vars, log_vars, san, playlist, hash_seed, csv_file,
                    tables >>

\* Lines 227-246: to_csv opens the final path for writing and writes the
\* rows to it.  w is "ok", "open" (the file cannot be opened; nothing is
\* written) or "write" (an error after k rows were written); after an error
\* the finally clause runs and the thread ends.  After the write the path
\* is loaded into the downloader (line 233).
export_write(w, k) ==
    /\ ex.pc = "write"
    /\ k <= Len(ex.data)
    /\ w = "ok" => k = Len(ex.data)
    /\ w = "open" => k = 0
    /\ csv_file' = CASE w = "ok" -> [state |-> "complete", rows |-> ex.data]
                      [] w = "open" -> csv_file
                      [] w = "write" ->
                            [state |-> "partial", rows |-> SubSeq(ex.data, 1, k)]
    /\ ex' = [ex EXCEPT !.pc = IF w = "ok" THEN "done" ELSE "raised"]
    /\ tables' = IF w = "ok" THEN Append(tables, ex.data) ELSE tables
    /\ csv_path' = (csv_path \/ w = "ok")
    /\ UNCHANGED << downloader_vars, log_vars, san, playlist, hash_seed >>

\* The app is closed and started again: a new process, with a new hash
\* seed and no path loaded; the files on disk stay.
app_restart(seed) ==
    /\ ex.pc \in {"done", "raised"}
    /\ hash_seed' = seed
    /\ ex' = [NoExport EXCEPT !.n = ex.n]
    /\ csv_path' = FALSE
    /\ UNCHANGED << downloader_vars, log_vars, san, playlist, csv_file, tables >>

\* ------------------------------------------------------- log, flush_logs

\* Lines 145-147: log, called by producer p: put on an unbounded queue.
log(p) ==
    /\ pushed[p] < MaxMsgs
    /\ log_queue' = Append(log_queue, Line(p, pushed[p] + 1))
    /\ pushed' = [pushed EXCEPT ![p] = @ + 1]
    /\ UNCHANGED << csv_path, downloader_vars, export_vars, log_text,
                    flusher, san >>

\* Lines 126, 163: the timer set by root.after fires, flush_logs starts.
flush_logs_start ==
    /\ flusher = "scheduled"
    /\ flusher' = "running"
    /\ UNCHANGED << csv_path, downloader_vars, export_vars, log_queue,
                    log_text, pushed, san >>

\* flush_logs_get without the insert of line 160.
flush_logs_get_only ==
    /\ flusher = "running"
    /\ log_queue # << >>
    /\ log_queue' = Tail(log_queue)
    /\ UNCHANGED << csv_path, downloader_vars, export_vars, log_text, pushed,
                    flusher, san >>

\* Lines 157-162, one iteration: the oldest message is taken off the queue
\* and appended to the view.
flush_logs_get ==
    /\ flusher = "running"
    /\ log_queue # << >>
    /\ log_text' = Append(log_text, Head(log_queue))
    /\ log_queue' = Tail(log_queue)
    /\ UNCHANGED << csv_path, downloader_vars, export_vars, pushed, flusher,
                    san >>

\* Lines 157, 163: the queue is empty; flush_logs schedules itself again.
flush_logs_end ==
    /\ flusher = "running"
    /\ log_queue = << >>
    /\ flusher' = "scheduled"
    /\ UNCHANGED << csv_path, downloader_vars, export_vars, log_queue,
                    log_text, pushed, san >>

\* -------------------------------------------------------- sanitize_filename

Letters ==
    {"a", "b", "c", "d", "e", "f", "g", "h", "i", "j", "k", "l", "m",
     "n", "o", "p", "q", "r", "s", "t", "u", "v", "w", "x", "y", "z",
     "A", "B", "C", "D", "E", "F", "G", "H", "I", "J", "K", "L", "M",
     "N", "O", "P", "Q", "R", "S", "T", "U", "V", "W", "X", "Y", "Z"}
Digits == {"0", "1", "2", "3", "4", "5", "6", "7", "8", "9"}

\* Line 49: the characters that are kept.
valid == {"-", "_", ".", "(", ")", " "} \cup Letters \cup Digits

\* The characters str.strip() removes at both ends.
Whitespace == {" ", "\t", "\n", "\r", "\f"}

RECURSIVE lstrip(_)
lstrip(s) ==
    IF s # << >> /\ Head(s) \in Whitespace THEN lstrip(Tail(s)) ELSE s

RECURSIVE rstrip(_)
rstrip(s) ==
    IF s # << >> /\ s[Len(s)] \in Whitespace
    THEN rstrip(SubSeq(s, 1, Len(s) - 1)) ELSE s

strip(s) == rstrip(lstrip(s))

\* str.replace(old, new) for one-character old and new.
replace(s, old, new) == [i \in DOMAIN s |-> IF s[i] = old THEN new ELSE s[i]]

\* sanitize_filename without the replace.
sanitize_filename_spaces(name) ==
    strip(SelectSeq(name, LAMBDA c : c \in valid))

\* Lines 48-50.  A name is the sequence of its characters.
sanitize_filename(name) ==
    replace(strip(SelectSeq(name, LAMBDA c : c \in valid)), " ", "_")

\* The characters of the names that are tried: a letter, a digit, a space,
\* a kept punctuation mark, a dropped one, a dropped whitespace character.
NameChars == {"a", "7", " ", ".", ":", "\t"}
Names == UNION {[1..n -> NameChars] : n \in 0..MaxLen}

\* sanitize_filename is applied to the name.
sanitize_name ==
    /\ san.pc = "name"
    /\ san' = [san EXCEPT !.pc = "once", !.once = sanitize_filename(san.name)]
    /\ UNCHANGED << csv_path, downloader_vars, export_vars, log_vars >>

\* sanitize_filename is applied to its own result.
sanitize_again ==
    /\ san.pc = "once"
    /\ san' = [san EXCEPT !.pc = "twice", !.twice = sanitize_filename(san.once)]
    /\ UNCHANGED << csv_path, downloader_vars, export_vars, log_vars >>

\* ------------------------------------------------------------ specification

\* Everything but the download side is at rest.
ExportIdle == UNCHANGED << export_vars, log_vars, san >>

Next ==
    \/ (\E p \in BOOLEAN : pick_csv(p)) /\ ExportIdle
    \/ (\E v \in OverwriteModes : set_overwrite(v)) /\ ExportIdle
    \/ (\E n \in WorkerCounts : set_parallel(n)) /\ ExportIdle
    \/ start_dl_no_csv
    \/ (start_dl) /\ ExportIdle
    \/ (stop_dl) /\ ExportIdle
    \/ (\E r \in Runs, n \in 0..MaxRows : run_dl_read(r, n)) /\ ExportIdle
    \/ (\E r \in Runs : run_dl_submit(r)) /\ ExportIdle
    \/ (\E r \in Runs : run_dl_collect_end(r)) /\ ExportIdle
    \/ (\E r \in Runs, i \in Rows : run_dl_collect(r, i)) /\ ExportIdle
    \/ (\E r \in Runs : run_dl_shutdown(r)) /\ ExportIdle
    \/ (\E r \in Runs : run_dl_report(r)) /\ ExportIdle
    \/ (\E r \in Runs, i \in Rows : download_track_check(r, i)) /\ ExportIdle
    \/ (\E r \in Runs, i \in Rows, a \in BOOLEAN : download_track_extract(r, i, a)) /\ ExportIdle
    \/ (\E r \in Runs, i \in Rows, c \in {"path", "none", "raise"} :
             download_track_cover(r, i, c)) /\ ExportIdle
    \/ (\E r \in Runs, i \in Rows, made \in BOOLEAN :
             download_track_mux(r, i, made)) /\ ExportIdle
    \/ (\E r \in Runs, i \in Rows : download_track_verify(r, i)) /\ ExportIdle

Spec == Init /\ [][Next]_vars

\* The download side with the format selection changing under one run.
NextFormat ==
    \/ (\E f \in Formats : set_format(f)) /\ ExportIdle
    \/ (\E p \in BOOLEAN : pick_csv(p)) /\ ExportIdle
    \/ (\E v \in OverwriteModes : set_overwrite(v)) /\ ExportIdle
    \/ (start_dl /\ run[1].pc = "none") /\ ExportIdle
    \/ (stop_dl) /\ ExportIdle
    \/ (\E r \in Runs, n \in 0..MaxRows : run_dl_read(r, n)) /\ ExportIdle
    \/ (\E r \in Runs : run_dl_submit(r)) /\ ExportIdle
    \/ (\E r \in Runs : run_dl_collect_end(r)) /\ ExportIdle
    \/ (\E r \in Runs, i \in Rows : run_dl_collect(r, i)) /\ ExportIdle
    \/ (\E r \in Runs : run_dl_shutdown(r)) /\ ExportIdle
    \/ (\E r \in Runs : run_dl_report(r)) /\ ExportIdle
    \/ (\E r \in Runs, i \in Rows : download_track_check(r, i)) /\ ExportIdle
    \/ (\E r \in Runs, i \in Rows, a \in BOOLEAN : download_track_extract(r, i, a)) /\ ExportIdle
    \/ (\E r \in Runs, i \in Rows, c \in {"path", "none", "raise"} :
             download_track_cover(r, i, c)) /\ ExportIdle
    \/ (\E r \in Runs, i \in Rows, made \in BOOLEAN :
             download_track_mux(r, i, made)) /\ ExportIdle
    \/ (\E r \in Runs, i \in Rows : download_track_verify(r, i)) /\ ExportIdle

SpecFormat == Init /\ [][NextFormat]_vars

\* The export side: a playlist and a hash seed, and the downloader at rest.
InitExport ==
    /\ InitDownloader
    /\ playlist \in Playlists
    /\ hash_seed \in HashOrders
    /\ ex = NoExport
    /\ csv_file = NoFile
    /\ tables = << >>
    /\ InitLog
    /\ san = NoName

NextExport ==
    \/ export_csv_rejected
    \/ export_csv
    \/ \E k \in 1..MaxEntries : export_fetch_first(k)
    \/ \E k \in 1..MaxEntries : export_fetch_next(k)
    \/ export_fetch_end
    \/ export_row
    \/ \E w \in {"ok", "open", "write"}, k \in 0..MaxEntries : export_write(w, k)
    \/ \E seed \in HashOrders : app_restart(seed)

SpecExport == InitExport /\ [][NextExport]_vars

\* The log queue: producers and the consumer, everything else at rest.  The
\* Tk main loop runs a timer that is due and goes on with flush_logs once it
\* has started it: weak fairness of the three steps of flush_logs.
NextLog ==
    \/ \E p \in Producers : log(p)
    \/ flush_logs_start
    \/ flush_logs_get
    \/ flush_logs_end

SpecLog ==
    /\ Init
    /\ [][NextLog]_vars
    /\ WF_vars(flush_logs_start)
    /\ WF_vars(flush_logs_get)
    /\ WF_vars(flush_logs_end)

\* sanitize_filename on every name of up to MaxLen characters.
InitSanitize ==
    /\ InitDownloader
    /\ InitNoExport
    /\ InitLog
    /\ \E name \in Names : san = [NoName EXCEPT !.name = name]

NextSanitize ==
    \/ sanitize_name
    \/ sanitize_again

SpecSanitize == InitSanitize /\ [][NextSanitize]_vars

\* ------------------------------------------------------------------ claims

Begun(r, i) == job[r][i].st \notin {"unsubmitted", "queued"}
Failed(r) == {i \in Rows : job[r][i].outcome = "failed"}

\* C1: once stop_dl has been called during a run, no call of that run that
\* had not begun executing download_track begins afterwards.
C1_NoStartAfterCancel ==
    [][\A r \in Runs, i \in Rows :
         (cancelled[r] /\ ~Begun(r, i)) => ~Begun(r, i)']_vars

\* C2: at no time are two run_dl executions active on one app instance.
C2_OneRunAtATime == Cardinality({r \in Runs : Active(r)}) <= 1

\* C3: no exception escapes run_dl; every run reaches its normal end.
C3_NoExceptionEscapes == \A r \in Runs : run[r].pc # "raised"

\* C4: in a run that is never cancelled, the failure of a call is caught and
\* logged and every submitted call is executed and counted: at the end of
\* the run all rows were submitted, all ran, all were counted, and one
\* "ERROR" line was logged per failed call.
C4_FailureIsolated ==
    \A r \in Runs :
        (Ended(r) /\ ~cancelled[r]) =>
            /\ run[r].submitted = run[r].total
            /\ Submitted(r) = 1..run[r].total
            /\ \A i \in Submitted(r) : job[r][i].st = "finished" /\ job[r][i].collected
            /\ run[r].completed = run[r].total
            /\ errors_logged[r] = Cardinality(Failed(r))

\* C4 witness: an uncancelled run has ended in which one call failed and
\* another one, collected after it, did not.
C4_Witness ==
    \E r \in Runs :
        /\ Ended(r) /\ ~cancelled[r]
        /\ \E i, k \in Rows :
              /\ job[r][i].outcome = "failed"
              /\ job[r][k].outcome = "success"
              /\ job[r][k].collected

\* C5: when a run ends, its completed count equals the number of calls it
\* submitted to the pool.
C5_OneOutcomePerSubmitted ==
    \A r \in Runs : Ended(r) => run[r].completed = run[r].submitted

NewlyCollected(r) ==
    {i \in Rows : ~job[r][i].collected /\ job'[r][i].collected}

\* C6: within a run the completed count starts at 0, rises by exactly 1 each
\* time the completion of a call is reported (the new count is the one put
\* in the status), never decreases and never exceeds the total read at the
\* start of the run.
C6_CompletedCount ==
    [][\A r \in Runs :
         /\ (run[r].pc = "read" /\ run'[r].pc # "read") => run'[r].completed = 0
         /\ run'[r].completed =
                run[r].completed + Cardinality(NewlyCollected(r))
         /\ Cardinality(NewlyCollected(r)) <= 1
         /\ NewlyCollected(r) # {} =>
                dl_status' = StatusCount(run'[r].completed, run'[r].total)
         /\ run'[r].completed <= run'[r].total]_vars

\* C6 witness: a run has counted two completions, a failure among them.
C6_Witness ==
    \E r \in Runs :
        /\ run[r].completed = 2
        /\ \E i \in Rows : job[r][i].collected /\ job[r][i].outcome = "failed"
        /\ \E i \in Rows : job[r][i].collected /\ job[r][i].outcome # "failed"

\* C7: in a run with worker count w, 1 <= w <= 4, at most w executions of
\* download_track are in progress at any instant.
C7_AtMostWorkers ==
    \A r \in Runs :
        run[r].pc \notin {"none", "read"} =>
            /\ run[r].max_workers \in MinWorkers..MaxWorkers
            /\ NumExecuting(r) <= run[r].max_workers

\* C7 witness: a pool of one worker is executing a call while another call
\* waits in its queue.
C7_Witness ==
    \E r \in Runs :
        /\ run[r].max_workers = 1
        /\ NumExecuting(r) = 1
        /\ \E i \in Rows : job[r][i].st = "queued"

\* C8: when the overwrite policy is skip and the target file exists as the
\* call starts, the call returns as skipped at once: no scratch directory,
\* no extraction tool, no cover fetch, no muxing tool.
C8_SkipRunsNothing ==
    [][\A r \in Runs, i \in Rows :
         /\ (job[r][i].st = "queued" /\ job'[r][i].st # "queued"
               /\ overwrite_var = "skip" /\ << i, format_var >> \in disk)
            => (job'[r][i].st = "finished" /\ job'[r][i].outcome = "skipped")
         /\ job'[r][i].outcome = "skipped" => job'[r][i].did = {}]_vars

\* C8 witness: a call has returned as skipped.
C8_Witness ==
    \E r \in Runs, i \in Rows :
        /\ job[r][i].st = "finished" /\ job[r][i].outcome = "skipped"
        /\ Out(r, i) \in disk

\* C9: a call whose extraction left an audio file and whose cover fetch
\* returned no path does not fail on the missing art: its mux step leads
\* on to the verify step or to success with the target file on disk.
C9_NoArtNoFailure ==
    [][\A r \in Runs, i \in Rows :
         (job[r][i].st = "mux" /\ job[r][i].audio /\ job[r][i].cover = "none"
            /\ job'[r][i] # job[r][i])
         => \/ job'[r][i].st = "verify"
            \/ job'[r][i].outcome = "success" /\ Out(r, i) \in disk']_vars

\* C10: a call that has run its mux stage ends as a success only if its
\* target file exists on disk as it ends, and as a failure if it does not.
C10_VerifiedSuccess ==
    [][\A r \in Runs, i \in Rows :
         (job[r][i].st # "finished" /\ job'[r][i].st = "finished"
            /\ "mux" \in job'[r][i].did)
         => /\ job'[r][i].outcome = "success" => Out(r, i) \in disk'
            /\ Out(r, i) \notin disk' => job'[r][i].outcome = "failed"]_vars

\* C10 witness: a call has run the muxing tool, the target file is absent,
\* and the call has ended as a failure.
C10_Witness ==
    \E r \in Runs, i \in Rows :
        /\ job[r][i].st = "finished"
        /\ "mux" \in job[r][i].did
        /\ Out(r, i) \notin disk
        /\ job[r][i].outcome = "failed"

\* C17: a call whose extraction left no audio file fails there: its next
\* step ends it as a failure, and neither the cover fetch nor the muxing
\* tool is invoked for it.
C17_NoAudioStopsCall ==
    [][\A r \in Runs, i \in Rows :
         (job[r][i].st = "cover" /\ ~job[r][i].audio /\ job'[r][i] # job[r][i])
         => /\ job'[r][i].st = "finished"
            /\ job'[r][i].outcome = "failed"
            /\ job'[r][i].did \cap {"cover", "mux"} = {}]_vars

\* C20: once stop_dl has set the stop flag while a run is active, no step
\* clears the flag while that run is still active.
C20_CancelSticky ==
    [][\A r \in Runs :
         (cancelled[r] /\ Active(r) /\ stop_event) => stop_event']_vars

\* C18: every call of a run uses the format that was selected when the run
\* was started, whatever is selected while the run is in progress.
C18_FormatFixedPerRun ==
    \A r \in Runs, i \in Rows :
        job[r][i].fmt # "unset" => job[r][i].fmt = run[r].start_format

\* C11: whatever the page boundaries, the fetch collects the entries of the
\* playlist in their order, none dropped and none twice: while pages are
\* fetched the list is the playlist up to the last page fetched, and once
\* the fetch has ended it is the whole playlist.
C11_AllEntriesInOrder ==
    /\ ex.pc = "more" =>
          /\ Len(ex.tracks) = ex.next_offset
          /\ ex.tracks = SubSeq(playlist, 1, Len(ex.tracks))
    /\ ex.pc \in {"rows", "write", "done", "raised"} => ex.tracks = playlist

\* C11 witness: the fetch has ended after as many pages as the playlist has
\* entries, more than one.
C11_Witness ==
    /\ ex.pc = "rows"
    /\ ex.pages = Len(playlist)
    /\ ex.pages > 1

\* C12: once the row loop has been left, the table holds one row per
\* playlist entry, row i for entry i, and the row of an entry without a
\* track is empty.
C12_NullTrackKeepsRow ==
    ex.pc \in {"write", "done", "raised"} =>
        /\ Len(ex.data) = Len(playlist)
        /\ \A i \in DOMAIN ex.data :
              /\ ex.data[i].id = i
              /\ ~playlist[i].has_track =>
                    ex.data[i].calls = << >> /\ ex.data[i].genres = << >>

\* C13: any two completed exports of the playlist give every track the
\* same Genres string.
C13_GenresDeterministic ==
    \A a, b \in DOMAIN tables :
        \A i \in DOMAIN tables[a] : tables[a][i].genres = tables[b][i].genres

\* C15: when the export task has ended, the file at the final path is not
\* a partly written one.
C15_NoPartialFile ==
    ex.pc \in {"done", "raised"} => csv_file.state # "partial"

\* C19: for every row, the artist lookup was called once per distinct
\* artist id of the track.
C19_OneLookupPerArtist ==
    \A i \in DOMAIN ex.data :
        Len(ex.data[i].calls) =
            Cardinality({ex.data[i].calls[k] : k \in DOMAIN ex.data[i].calls})

LogOf(p) == SelectSeq(log_text \o log_queue, LAMBDA m : m.by = p)
InView(m) == \E i \in DOMAIN log_text : log_text[i] = m

\* C16: no message is dropped.  log never waits for the consumer; at all
\* times the messages of a producer that are in the view or still on the
\* queue are all it has pushed, once each and in the order pushed, those in
\* the view first; and every message pushed is eventually in the view.
C16_NoLogDropped ==
    /\ [](\A p \in Producers :
            /\ pushed[p] < MaxMsgs => ENABLED log(p)
            /\ LogOf(p) = [n \in 1..pushed[p] |-> Line(p, n)])
    /\ \A p \in Producers, n \in 1..MaxMsgs :
          (pushed[p] >= n) ~> InView(Line(p, n))

\* C16 witness: every producer has pushed all its messages and the view
\* holds them all, a message of one producer between two of another.
C16_Witness ==
    /\ \A p \in Producers : pushed[p] = MaxMsgs
    /\ log_queue = << >>
    /\ Len(log_text) = MaxProducers * MaxMsgs
    /\ \E i \in DOMAIN log_text :
          /\ i + 2 \in DOMAIN log_text
          /\ log_text[i].by = log_text[i + 2].by
          /\ log_text[i].by # log_text[i + 1].by

\* C21: whenever a run sets the status to "Done", every row of the table it
\* read at its start has been processed by it: all rows were submitted, all
\* calls have finished, and its completed count equals its total.  A run
\* that left its loops early because of cancellation does not report "Done".
C21_DoneMeansAllProcessed ==
    [][\A r \in Runs :
         (run[r].pc = "report" /\ run'[r].pc # "report"
            /\ dl_status' = StatusText("Done"))
         => /\ run[r].completed = run[r].total
            /\ run[r].submitted = run[r].total
            /\ \A i \in 1..run[r].total : job[r][i].st = "finished"]_vars

====
